---- MODULE Spec2Model ----
(***************************************************************************)
(* Model of backend/server.py: the /ws/audio websocket handler             *)
(* (audio_websocket), the startup model load (load_models) and the         *)
(* keyword reply generator (generate_response).                            *)
(*                                                                         *)
(* One handler coroutine runs per connection on a single asyncio event     *)
(* loop.  Every `await` of the handler is a step boundary of the model;    *)
(* the code between two awaits is one atomic step.  The call to            *)
(* asr_model.transcribe is synchronous: while it runs the event loop is    *)
(* occupied and no coroutine of the process can take a step.               *)
(*                                                                         *)
(* Time is counted in ticks of 0.75 s (SILENCE_LIMIT = 1.5 s = 2 ticks).   *)
(* Text is modelled by TLA+ strings, characters by strings of length 1.    *)
(***************************************************************************)
EXTENDS Integers, Sequences, FiniteSets, TLC

(***************************************************************************)
(* Bounds of the model.                                                    *)
(***************************************************************************)
\* number of clock ticks a run may last
MaxTicks == 6
\* frames a client may have in flight (sent, not yet received by the handler)
MaxInbox == 1
\* frames held by a connection (buffered or in flight) before the client pauses
MaxBuf == 4
\* the same two bounds for the runs with two clients
TwoTicks == 3
TwoBuf == 3

(***************************************************************************)
(* Configuration (server.py:15-16).                                        *)
(***************************************************************************)
\* SILENCE_LIMIT = 1.5 seconds, in ticks of 0.75 s
SILENCE_LIMIT == 2

\* VAD_THRESHOLD = 0.01 on samples scaled by 1/32768:
\*   sqrt(mean((s/32768)^2)) > 0.01  <=>  sum(s^2) > 327.68^2 * n
\* with 327.68^2 = 107374.1824 = VadSquare + VadSquareFrac / VadFracUnit
VadSquare == 107374
VadSquareFrac == 1824
VadFracUnit == 10000

\* wall clock (ticks since the epoch) at which the process starts:
\* 1.5 s before a minute boundary (which is at tick 80)
Epoch == 78

Conns == {1, 2}

None == <<>>
Some(v) == <<v>>

(***************************************************************************)
(* Frame decoding and VAD energy (server.py:151, 155, 162).                *)
(***************************************************************************)
\* a frame is a sequence of bytes 0..255
\* np.frombuffer(data, dtype=np.int16) raises ValueError when the byte
\* length is not a multiple of 2
FrombufferRaises(data) == Len(data) % 2 # 0

\* little-endian signed 16-bit sample number i of the buffer
Int16At(data, i) ==
    LET u == data[2 * i - 1] + 256 * data[2 * i]
    IN  IF u >= 32768 THEN u - 65536 ELSE u

\* np.frombuffer(data, dtype=np.int16).astype(np.float32) / 32768.0,
\* kept as the integer numerators of the samples (the scale is 1/32768)
Frombuffer(data) == [i \in 1..(Len(data) \div 2) |-> Int16At(data, i)]

RECURSIVE SumSq(_)
SumSq(chunk) ==
    IF chunk = <<>> THEN 0
    ELSE Head(chunk) * Head(chunk) + SumSq(Tail(chunk))

\* energy = np.sqrt(np.mean(chunk**2)); the mean of an empty chunk is NaN
EnergyIsNaN(chunk) == Len(chunk) = 0

\* energy > VAD_THRESHOLD (a NaN compares False)
Active(chunk) ==
    /\ ~EnergyIsNaN(chunk)
    /\ VadFracUnit * (SumSq(chunk) - VadSquare * Len(chunk))
         > VadSquareFrac * Len(chunk)

\* np.concatenate(audio_buffer)
RECURSIVE Concatenate(_)
Concatenate(chunks) ==
    IF chunks = <<>> THEN <<>>
    ELSE Head(chunks) \o Concatenate(Tail(chunks))

(***************************************************************************)
(* Text helpers: str.strip, str.split, str.lower, str.join, `in`.          *)
(***************************************************************************)
WhiteSpace == {" ", "\t", "\n"}

Char(s, i) == SubSeq(s, i, i)

RECURSIVE LStrip(_)
LStrip(s) ==
    IF Len(s) > 0 /\ Char(s, 1) \in WhiteSpace
    THEN LStrip(SubSeq(s, 2, Len(s)))
    ELSE s

RECURSIVE RStrip(_)
RStrip(s) ==
    IF Len(s) > 0 /\ Char(s, Len(s)) \in WhiteSpace
    THEN RStrip(SubSeq(s, 1, Len(s) - 1))
    ELSE s

Strip(s) == RStrip(LStrip(s))

\* length of the leading run of non-whitespace characters of s
RECURSIVE WordLen(_)
WordLen(s) ==
    IF Len(s) = 0 \/ Char(s, 1) \in WhiteSpace THEN 0
    ELSE 1 + WordLen(SubSeq(s, 2, Len(s)))

\* s.split(): the maximal runs of non-whitespace characters, in order
RECURSIVE Split(_)
Split(s) ==
    LET t == LStrip(s)
        n == WordLen(t)
    IN  IF Len(t) = 0 THEN <<>>
        ELSE <<SubSeq(t, 1, n)>> \o Split(SubSeq(t, n + 1, Len(t)))

\* " ".join(parts)
RECURSIVE Join(_)
Join(parts) ==
    IF parts = <<>> THEN ""
    ELSE IF Len(parts) = 1 THEN parts[1]
    ELSE parts[1] \o " " \o Join(Tail(parts))

UpperCase == "ABCDEFGHIJKLMNOPQRSTUVWXYZ"
LowerCase == "abcdefghijklmnopqrstuvwxyz"

LowerChar(ch) ==
    IF \E i \in 1..26 : Char(UpperCase, i) = ch
    THEN Char(LowerCase, CHOOSE i \in 1..26 : Char(UpperCase, i) = ch)
    ELSE ch

\* text.lower()
RECURSIVE Lower(_)
Lower(s) ==
    IF Len(s) = 0 THEN ""
    ELSE LowerChar(Char(s, 1)) \o Lower(SubSeq(s, 2, Len(s)))

\* keyword in text
Contains(s, k) ==
    \E i \in 1..(Len(s) - Len(k) + 1) : SubSeq(s, i, i + Len(k) - 1) = k

(***************************************************************************)
(* time.strftime('%I:%M %p') of a clock value in ticks of 0.75 s.          *)
(***************************************************************************)
Digit(n) == Char("0123456789", n + 1)
TwoDigits(n) == Digit(n \div 10) \o Digit(n % 10)

Strftime(t) ==
    LET secs == (3 * t) \div 4
        minute == (secs \div 60) % 60
        hour24 == (secs \div 3600) % 24
        hour12 == IF hour24 % 12 = 0 THEN 12 ELSE hour24 % 12
    IN  TwoDigits(hour12) \o ":" \o TwoDigits(minute) \o " "
          \o (IF hour24 < 12 THEN "AM" ELSE "PM")

(***************************************************************************)
(* generate_response (server.py:75-96).                                    *)
(***************************************************************************)
\* the dict literal `responses`, in insertion order, built at clock value t
responses(t) == <<
    <<"hello", "Hello! How can I help you today?">>,
    <<"hi", "Hi there! What can I do for you?">>,
    <<"weather", "I don't have access to real-time weather data, but I can help you with other questions!">>,
    <<"time", "The current time is " \o Strftime(t)>>,
    <<"name", "I'm your local voice assistant, running entirely on your machine!">>,
    <<"how are you", "I'm functioning perfectly! How can I assist you?">>,
    <<"thank", "You're welcome! Is there anything else I can help with?">>,
    <<"bye", "Goodbye! Have a great day!">> >>

generate_response(text, t) ==
    LET text_lower == Lower(text)
        table == responses(t)
        hits == {i \in 1..Len(table) : Contains(text_lower, table[i][1])}
    IN  IF hits # {}
        THEN table[CHOOSE i \in hits : \A j \in hits : i <= j][2]
        ELSE "You said: '" \o text
               \o "'. I'm a simple demo assistant. Try asking about the time, weather, or just say hello!"

(***************************************************************************)
(* Inputs of the model.                                                    *)
(***************************************************************************)
\* frames a client sends (bytes, little-endian int16 samples):
\*   <<>>                  zero-length frame
\*   <<71, 1, 185, 254>>   samples 327, -327 (energy 0.00998, inactive)
\*   <<72, 1, 184, 254>>   samples 328, -328 (energy 0.01001, active)
\*   <<72, 1, 0>>          odd byte length
ClientFrames == { <<>>, <<71, 1, 185, 254>>, <<72, 1, 184, 254>>, <<72, 1, 0>> }

\* results of asr_model.transcribe: the texts of the returned segments
AsrResults == { <<>>, <<" ">>, <<" Bye.">>, <<" What", " time?">> }

\* messages of the exceptions asr_model.transcribe raises
AsrErrors == { "out of memory" }

\* items yielded by edge_tts.Communicate.stream()
TtsStreams == { <<>>,
                << <<"WordBoundary", "">>, <<"audio", "ID3">>, <<"audio", "xx">> >> }

\* messages of the exceptions edge_tts raises
TtsErrors == { "No audio was received" }

\* exceptions a send raises once the client is gone
SendErrors == { "WebSocketDisconnect", "RuntimeError" }

(***************************************************************************)
(* Events sent to the client (server.py, the send_json calls).  The        *)
(* latency numbers of transcript and latency_stats are left out.           *)
(***************************************************************************)
Status(m) == <<"status", m>>
ErrorEv(m) == <<"error", m>>
Transcript(t) == <<"transcript", t>>
LatencyStats == <<"latency_stats", "">>
Token(w) == <<"token", w \o " ">>
\* base64.b64encode(b"".join(audio_chunks)).decode("utf-8")
RECURSIVE JoinBytes(_)
JoinBytes(chunks) ==
    IF chunks = <<>> THEN "" ELSE Head(chunks) \o JoinBytes(Tail(chunks))
AudioEv(chunks) == <<"audio", <<"base64", JoinBytes(chunks)>> >>

VARIABLES
    asr_model,      \* global asr_model: "None" or "WhisperModel"
    started,        \* startup_event has run
    now,            \* wall clock, ticks of 0.75 s
    blocking,       \* connection whose handler is inside a synchronous
                    \* call on the event loop, 0 when the loop is free
    link,           \* client side of each connection
    inbox,          \* frames sent by the client, not yet received
    pc,             \* await at which each handler is suspended
    audio_buffer, is_speaking, silence_start, total_chunks,
    full_audio, text, response_text, widx, audio_chunks, exc,
    sent,           \* events sent since the last frame received while idle
    first_event,    \* first event sent on the connection, None before it
    owed,           \* status:processing events sent since the last status:idle
    asr_calls,      \* calls of asr_model.transcribe since the last frame
                    \* received while idle
    tts_calls       \* calls of edge_tts since the last frame received
                    \* while idle

env == <<asr_model, started, now, link, inbox>>
vad == <<audio_buffer, is_speaking, silence_start, total_chunks>>
turn == <<full_audio, text, response_text, widx, audio_chunks, exc>>
ghost == <<sent, first_event, owed, asr_calls, tts_calls>>
vars == <<env, blocking, pc, vad, turn, ghost>>

SendPcs == { "send_hello", "send_listening", "send_processing",
             "send_error_model", "send_error_asr", "send_idle_empty",
             "send_transcript", "send_stats", "send_token", "send_audio",
             "send_idle" }

\* the handler is inside a response cycle (between the flush and the
\* return to receive_bytes)
CyclePcs == (SendPcs \ {"send_hello", "send_listening"})
               \cup {"transcribe", "sleep", "tts"}

InitWith(clients) ==
    /\ asr_model = "None"
    /\ started = FALSE
    /\ now = Epoch
    /\ blocking = 0
    /\ link = [c \in Conns |-> IF c \in clients THEN "pending" ELSE "absent"]
    /\ inbox = [c \in Conns |-> <<>>]
    /\ pc = [c \in Conns |-> "off"]
    /\ audio_buffer = [c \in Conns |-> <<>>]
    /\ is_speaking = [c \in Conns |-> FALSE]
    /\ silence_start = [c \in Conns |-> None]
    /\ total_chunks = [c \in Conns |-> 0]
    /\ full_audio = [c \in Conns |-> <<>>]
    /\ text = [c \in Conns |-> ""]
    /\ response_text = [c \in Conns |-> ""]
    /\ widx = [c \in Conns |-> 0]
    /\ audio_chunks = [c \in Conns |-> <<>>]
    /\ exc = [c \in Conns |-> ""]
    /\ sent = [c \in Conns |-> <<>>]
    /\ first_event = [c \in Conns |-> None]
    /\ owed = [c \in Conns |-> 0]
    /\ asr_calls = [c \in Conns |-> 0]
    /\ tts_calls = [c \in Conns |-> 0]

\* one client
Init == InitWith({1})

(***************************************************************************)
(* Startup, clock and clients.                                             *)
(***************************************************************************)
\* load_models(), run by startup_event before any connection is served;
\* ok is whether WhisperModel(...) was built without raising
load_models(ok) ==
    /\ ~started
    /\ started' = TRUE
    /\ asr_model' = IF ok THEN "WhisperModel" ELSE "None"
    /\ UNCHANGED <<now, link, inbox, blocking, pc, vad, turn, ghost>>

\* variant: a handler waiting for a frame flushes when the clock passes
\* the silence limit
TickFlushes(ticks) ==
    /\ started
    /\ now < Epoch + ticks
    /\ now' = now + 1
    /\ pc' = [c \in Conns |->
                IF /\ pc[c] = "recv" /\ is_speaking[c] /\ silence_start[c] # None
                   /\ now + 1 - silence_start[c][1] > SILENCE_LIMIT
                THEN "send_processing" ELSE pc[c]]
    /\ UNCHANGED <<asr_model, started, link, inbox, blocking, vad, turn, ghost>>

\* the clock advances, for at most `ticks` ticks
Tick(ticks) ==
    /\ started
    /\ now < Epoch + ticks
    /\ now' = now + 1
    /\ UNCHANGED <<asr_model, started, link, inbox, blocking, pc, vad, turn, ghost>>

\* the client sends a frame; it pauses while the connection holds cap frames
ClientSend(c, f, cap) ==
    /\ link[c] = "open"
    /\ pc[c] \notin {"except", "closed"}
    /\ Len(inbox[c]) < MaxInbox
    /\ Len(inbox[c]) + Len(audio_buffer[c]) < cap
    /\ inbox' = [inbox EXCEPT ![c] = Append(@, f)]
    /\ UNCHANGED <<asr_model, started, now, link, blocking, pc, vad, turn, ghost>>

ClientDisconnect(c) ==
    /\ link[c] = "open"
    /\ link' = [link EXCEPT ![c] = "gone"]
    /\ UNCHANGED <<asr_model, started, now, inbox, blocking, pc, vad, turn, ghost>>

(***************************************************************************)
(* The handler audio_websocket (server.py:129-281).                        *)
(***************************************************************************)
\* the event loop can resume a coroutine
LoopFree == blocking = 0

Emit(c, ev) ==
    /\ sent' = [sent EXCEPT ![c] = Append(@, ev)]
    /\ first_event' = [first_event EXCEPT ![c] = IF @ = None THEN Some(ev) ELSE @]

\* server.py:131-139
Accept(c) ==
    /\ started /\ LoopFree
    /\ pc[c] = "off" /\ link[c] = "pending"
    /\ link' = [link EXCEPT ![c] = "open"]
    /\ pc' = [pc EXCEPT ![c] = "send_hello"]
    /\ audio_buffer' = [audio_buffer EXCEPT ![c] = <<>>]
    /\ is_speaking' = [is_speaking EXCEPT ![c] = FALSE]
    /\ silence_start' = [silence_start EXCEPT ![c] = None]
    /\ total_chunks' = [total_chunks EXCEPT ![c] = 0]
    /\ UNCHANGED <<asr_model, started, now, inbox, blocking, turn, ghost>>

\* variant: the handler enters its loop without the initial status
SendInitialStatusSkipped(c) ==
    /\ LoopFree /\ pc[c] = "send_hello"
    /\ pc' = [pc EXCEPT ![c] = "recv"]
    /\ UNCHANGED <<env, blocking, vad, turn, ghost>>

\* server.py:143
SendInitialStatus(c) ==
    /\ LoopFree /\ pc[c] = "send_hello"
    /\ Emit(c, Status("idle"))
    /\ pc' = [pc EXCEPT ![c] = "recv"]
    /\ UNCHANGED <<env, blocking, vad, turn, owed, asr_calls, tts_calls>>

\* variant: an active frame leaves a running silence timer alone
NextSilenceStartKept(speaking, timer, active, t) ==
    IF ~active /\ speaking /\ timer = None THEN Some(t) ELSE timer

\* server.py:162-170: the silence timer after a frame
NextSilenceStart(speaking, timer, active, t) ==
    IF active THEN None
    ELSE IF speaking /\ timer = None THEN Some(t)
    ELSE timer

\* truth value of `silence_start` (None and 0.0 are false)
Truthy(timer) == timer # None /\ timer[1] # 0

\* variant: the flush fires as soon as the limit is reached
FlushDueAtLimit(speaking, timer, t) ==
    speaking /\ Truthy(timer) /\ t - timer[1] >= SILENCE_LIMIT

\* server.py:173
FlushDue(speaking, timer, t) ==
    speaking /\ Truthy(timer) /\ t - timer[1] > SILENCE_LIMIT

\* variant: an empty chunk is not stored
BufferedDropsEmpty(buffer, chunk) ==
    IF chunk = <<>> THEN buffer ELSE Append(buffer, chunk)

\* server.py:152
Buffered(buffer, chunk) == Append(buffer, chunk)

\* the handler leaves its loop: the frames still queued are never read
\* and the locals of the loop are never used again
Unwind(c) ==
    /\ inbox' = [inbox EXCEPT ![c] = <<>>]
    /\ audio_buffer' = [audio_buffer EXCEPT ![c] = <<>>]
    /\ is_speaking' = [is_speaking EXCEPT ![c] = FALSE]
    /\ silence_start' = [silence_start EXCEPT ![c] = None]
    /\ total_chunks' = [total_chunks EXCEPT ![c] = 0]
    /\ full_audio' = [full_audio EXCEPT ![c] = <<>>]
    /\ text' = [text EXCEPT ![c] = ""]
    /\ response_text' = [response_text EXCEPT ![c] = ""]
    /\ widx' = [widx EXCEPT ![c] = 0]
    /\ audio_chunks' = [audio_chunks EXCEPT ![c] = <<>>]

\* server.py:269-270: WebSocketDisconnect is caught and the handler returns
Return(c) ==
    /\ Unwind(c)
    /\ pc' = [pc EXCEPT ![c] = "closed"]
    /\ exc' = [exc EXCEPT ![c] = ""]

\* server.py:271: any other exception e is caught
Raise(c, e) ==
    /\ Unwind(c)
    /\ pc' = [pc EXCEPT ![c] = "except"]
    /\ exc' = [exc EXCEPT ![c] = e]

\* server.py:147-173: one frame received and run through the VAD
ReceiveBytes(c) ==
    /\ LoopFree /\ pc[c] = "recv" /\ inbox[c] # <<>>
    /\ LET frame == Head(inbox[c])
           chunk == Frombuffer(frame)
           active == Active(chunk)
           timer == NextSilenceStart(is_speaking[c], silence_start[c], active, now)
       IN  IF FrombufferRaises(frame)
           THEN Raise(c, "buffer size must be a multiple of element size")
           ELSE /\ inbox' = [inbox EXCEPT ![c] = Tail(@)]
                /\ total_chunks' = [total_chunks EXCEPT ![c] = @ + 1]
                /\ audio_buffer' = [audio_buffer EXCEPT ![c] = Buffered(@, chunk)]
                /\ IF active /\ ~is_speaking[c]
                   THEN /\ is_speaking' = [is_speaking EXCEPT ![c] = TRUE]
                        /\ pc' = [pc EXCEPT ![c] = "send_listening"]
                        /\ UNCHANGED silence_start
                   ELSE /\ silence_start' = [silence_start EXCEPT ![c] = timer]
                        /\ pc' = [pc EXCEPT ![c] =
                               IF FlushDue(is_speaking[c], timer, now)
                               THEN "send_processing" ELSE "recv"]
                        /\ UNCHANGED is_speaking
                \* the locals of the previous cycle are dead by now
                /\ full_audio' = [full_audio EXCEPT ![c] = <<>>]
                /\ text' = [text EXCEPT ![c] = ""]
                /\ response_text' = [response_text EXCEPT ![c] = ""]
                /\ widx' = [widx EXCEPT ![c] = 0]
                /\ audio_chunks' = [audio_chunks EXCEPT ![c] = <<>>]
                /\ exc' = [exc EXCEPT ![c] = ""]
    \* the log restarts when a frame arrives while idle
    /\ IF is_speaking[c]
       THEN UNCHANGED <<sent, asr_calls, tts_calls>>
       ELSE /\ sent' = [sent EXCEPT ![c] = <<>>]
            /\ asr_calls' = [asr_calls EXCEPT ![c] = 0]
            /\ tts_calls' = [tts_calls EXCEPT ![c] = 0]
    /\ UNCHANGED <<asr_model, started, now, link, blocking, first_event, owed>>

\* server.py:147, 269-270: receive_bytes raises WebSocketDisconnect
ReceiveDisconnect(c) ==
    /\ LoopFree /\ pc[c] = "recv" /\ inbox[c] = <<>> /\ link[c] = "gone"
    /\ Return(c)
    /\ UNCHANGED <<asr_model, started, now, link, blocking, ghost>>

\* server.py:166-173
SendListening(c) ==
    /\ LoopFree /\ pc[c] = "send_listening"
    /\ Emit(c, Status("listening"))
    /\ silence_start' = [silence_start EXCEPT ![c] = None]
    /\ pc' = [pc EXCEPT ![c] =
           IF FlushDue(is_speaking[c], None, now) THEN "send_processing" ELSE "recv"]
    /\ UNCHANGED <<env, blocking, audio_buffer, is_speaking, total_chunks, turn, owed, asr_calls, tts_calls>>

\* variant: the flush calls transcribe without looking at asr_model
SendProcessingUnchecked(c) ==
    /\ LoopFree /\ pc[c] = "send_processing"
    /\ Emit(c, Status("processing"))
    /\ owed' = [owed EXCEPT ![c] = @ + 1]
    /\ full_audio' = [full_audio EXCEPT ![c] = Concatenate(audio_buffer[c])]
    /\ audio_buffer' = [audio_buffer EXCEPT ![c] = <<>>]
    /\ total_chunks' = [total_chunks EXCEPT ![c] = 0]
    /\ is_speaking' = [is_speaking EXCEPT ![c] = FALSE]
    /\ silence_start' = [silence_start EXCEPT ![c] = None]
    /\ pc' = [pc EXCEPT ![c] = "transcribe"]
    /\ blocking' = c
    /\ asr_calls' = [asr_calls EXCEPT ![c] = @ + 1]
    /\ UNCHANGED <<env, text, response_text, widx, audio_chunks, exc, tts_calls>>

\* server.py:175-198: the flush; with a model loaded the step ends inside
\* the synchronous call asr_model.transcribe
SendProcessing(c) ==
    /\ LoopFree /\ pc[c] = "send_processing"
    /\ Emit(c, Status("processing"))
    /\ owed' = [owed EXCEPT ![c] = @ + 1]
    /\ full_audio' = [full_audio EXCEPT ![c] = Concatenate(audio_buffer[c])]
    /\ audio_buffer' = [audio_buffer EXCEPT ![c] = <<>>]
    /\ total_chunks' = [total_chunks EXCEPT ![c] = 0]
    /\ is_speaking' = [is_speaking EXCEPT ![c] = FALSE]
    /\ silence_start' = [silence_start EXCEPT ![c] = None]
    /\ IF asr_model = "None"
       THEN /\ pc' = [pc EXCEPT ![c] = "send_error_model"]
            /\ UNCHANGED <<blocking, asr_calls>>
       ELSE /\ pc' = [pc EXCEPT ![c] = "transcribe"]
            /\ blocking' = c
            /\ asr_calls' = [asr_calls EXCEPT ![c] = @ + 1]
    /\ UNCHANGED <<env, text, response_text, widx, audio_chunks, exc, tts_calls>>

\* server.py:190-194
SendModelError(c) ==
    /\ LoopFree /\ pc[c] = "send_error_model"
    /\ Emit(c, ErrorEv("ASR model not loaded"))
    /\ pc' = [pc EXCEPT ![c] = "recv"]
    /\ UNCHANGED <<env, blocking, vad, turn, owed, asr_calls, tts_calls>>

\* variant: the joined text is not trimmed
TranscribeReturnUntrimmed(c, segments) ==
    /\ blocking = c /\ pc[c] = "transcribe"
    /\ LET t == Join(segments)
       IN  /\ text' = [text EXCEPT ![c] = t]
           /\ pc' = [pc EXCEPT ![c] =
                  IF t = "" THEN "send_idle_empty" ELSE "send_transcript"]
    /\ blocking' = 0
    /\ UNCHANGED <<env, vad, full_audio, response_text, widx, audio_chunks, exc, ghost>>

\* server.py:198-208, 217: transcribe returns its segments
TranscribeReturn(c, segments) ==
    /\ blocking = c /\ pc[c] = "transcribe"
    /\ LET t == Strip(Join(segments))
       IN  /\ text' = [text EXCEPT ![c] = t]
           /\ pc' = [pc EXCEPT ![c] =
                  IF t = "" THEN "send_idle_empty" ELSE "send_transcript"]
    /\ blocking' = 0
    /\ UNCHANGED <<env, vad, full_audio, response_text, widx, audio_chunks, exc, ghost>>

\* variant: a failed transcription is tried a second time
TranscribeRaiseRetry(c, msg) ==
    /\ blocking = c /\ pc[c] = "transcribe"
    /\ exc' = [exc EXCEPT ![c] = msg]
    /\ IF asr_calls[c] < 2
       THEN /\ asr_calls' = [asr_calls EXCEPT ![c] = @ + 1]
            /\ UNCHANGED <<pc, blocking>>
       ELSE /\ pc' = [pc EXCEPT ![c] = "send_error_asr"]
            /\ blocking' = 0
            /\ UNCHANGED asr_calls
    /\ UNCHANGED <<env, vad, full_audio, text, response_text, widx, audio_chunks, sent, first_event, owed, tts_calls>>

\* server.py:198-210: transcribe raises
TranscribeRaise(c, msg) ==
    /\ blocking = c /\ pc[c] = "transcribe"
    /\ exc' = [exc EXCEPT ![c] = msg]
    /\ pc' = [pc EXCEPT ![c] = "send_error_asr"]
    /\ blocking' = 0
    /\ UNCHANGED <<env, vad, full_audio, text, response_text, widx, audio_chunks, ghost>>

\* server.py:211-215
SendAsrError(c) ==
    /\ LoopFree /\ pc[c] = "send_error_asr"
    /\ Emit(c, ErrorEv("Transcription failed: " \o exc[c]))
    /\ pc' = [pc EXCEPT ![c] = "recv"]
    /\ UNCHANGED <<env, blocking, vad, turn, owed, asr_calls, tts_calls>>

\* server.py:219-220
SendEmptyIdle(c) ==
    /\ LoopFree /\ pc[c] = "send_idle_empty"
    /\ Emit(c, Status("idle"))
    /\ owed' = [owed EXCEPT ![c] = 0]
    /\ pc' = [pc EXCEPT ![c] = "recv"]
    /\ UNCHANGED <<env, blocking, vad, turn, asr_calls, tts_calls>>

\* server.py:223-232
SendTranscript(c) ==
    /\ LoopFree /\ pc[c] = "send_transcript"
    /\ Emit(c, Transcript(text[c]))
    /\ response_text' = [response_text EXCEPT ![c] = generate_response(text[c], now)]
    /\ pc' = [pc EXCEPT ![c] = "send_stats"]
    /\ UNCHANGED <<env, blocking, vad, full_audio, text, widx, audio_chunks, exc, owed, asr_calls, tts_calls>>

\* server.py:242
words(c) == Split(response_text[c])

\* variant: the tokens follow the transcript directly
SendLatencyStatsSkipped(c) ==
    /\ LoopFree /\ pc[c] = "send_stats"
    /\ IF Split(response_text[c]) = <<>>
       THEN /\ pc' = [pc EXCEPT ![c] = "tts"]
            /\ tts_calls' = [tts_calls EXCEPT ![c] = @ + 1]
            /\ UNCHANGED widx
       ELSE /\ pc' = [pc EXCEPT ![c] = "send_token"]
            /\ widx' = [widx EXCEPT ![c] = 1]
            /\ UNCHANGED tts_calls
    /\ UNCHANGED <<env, blocking, vad, full_audio, text, response_text, audio_chunks, exc,
                   sent, first_event, owed, asr_calls>>

\* server.py:235-243
SendLatencyStats(c) ==
    /\ LoopFree /\ pc[c] = "send_stats"
    /\ Emit(c, LatencyStats)
    /\ IF words(c) = <<>>
       THEN /\ pc' = [pc EXCEPT ![c] = "tts"]
            /\ tts_calls' = [tts_calls EXCEPT ![c] = @ + 1]
            /\ UNCHANGED widx
       ELSE /\ pc' = [pc EXCEPT ![c] = "send_token"]
            /\ widx' = [widx EXCEPT ![c] = 1]
            /\ UNCHANGED tts_calls
    /\ UNCHANGED <<env, blocking, vad, full_audio, text, response_text, audio_chunks, exc, owed, asr_calls>>

\* variant: the words are sent last to first
SendTokenReversed(c) ==
    /\ LoopFree /\ pc[c] = "send_token"
    /\ Emit(c, Token(words(c)[Len(words(c)) + 1 - widx[c]]))
    /\ pc' = [pc EXCEPT ![c] = "sleep"]
    /\ UNCHANGED <<env, blocking, vad, turn, owed, asr_calls, tts_calls>>

\* server.py:244
SendToken(c) ==
    /\ LoopFree /\ pc[c] = "send_token"
    /\ Emit(c, Token(words(c)[widx[c]]))
    /\ pc' = [pc EXCEPT ![c] = "sleep"]
    /\ UNCHANGED <<env, blocking, vad, turn, owed, asr_calls, tts_calls>>

\* server.py:245, 243, 251-253: asyncio.sleep(0.05) returns
Sleep(c) ==
    /\ LoopFree /\ pc[c] = "sleep"
    /\ IF widx[c] < Len(words(c))
       THEN /\ widx' = [widx EXCEPT ![c] = @ + 1]
            /\ pc' = [pc EXCEPT ![c] = "send_token"]
            /\ UNCHANGED tts_calls
       ELSE /\ pc' = [pc EXCEPT ![c] = "tts"]
            /\ tts_calls' = [tts_calls EXCEPT ![c] = @ + 1]
            /\ UNCHANGED widx
    /\ UNCHANGED <<env, blocking, vad, full_audio, text, response_text, audio_chunks, exc,
                   sent, first_event, owed, asr_calls>>

\* server.py:254-255
AudioData(stream) ==
    LET audio == SelectSeq(stream, LAMBDA item : item[1] = "audio")
    IN  [i \in 1..Len(audio) |-> audio[i][2]]

\* server.py:251-258: the stream of edge_tts ends
TtsStream(c, stream) ==
    /\ LoopFree /\ pc[c] = "tts"
    /\ audio_chunks' = [audio_chunks EXCEPT ![c] = AudioData(stream)]
    /\ pc' = [pc EXCEPT ![c] =
           IF AudioData(stream) # <<>> THEN "send_audio" ELSE "send_idle"]
    /\ UNCHANGED <<env, blocking, vad, full_audio, text, response_text, widx, exc, ghost>>

\* variant: a failed synthesis is tried a second time
TtsRaiseRetry(c, msg) ==
    /\ LoopFree /\ pc[c] = "tts"
    /\ exc' = [exc EXCEPT ![c] = msg]
    /\ IF tts_calls[c] < 2
       THEN /\ tts_calls' = [tts_calls EXCEPT ![c] = @ + 1]
            /\ UNCHANGED pc
       ELSE /\ pc' = [pc EXCEPT ![c] = "send_idle"]
            /\ UNCHANGED tts_calls
    /\ UNCHANGED <<env, blocking, vad, full_audio, text, response_text, widx, audio_chunks,
                   sent, first_event, owed, asr_calls>>

\* server.py:251-253, 264-265: edge_tts raises
TtsRaise(c, msg) ==
    /\ LoopFree /\ pc[c] = "tts"
    /\ exc' = [exc EXCEPT ![c] = msg]
    /\ pc' = [pc EXCEPT ![c] = "send_idle"]
    /\ UNCHANGED <<env, blocking, vad, full_audio, text, response_text, widx, audio_chunks, ghost>>

\* server.py:258-263
SendAudio(c) ==
    /\ LoopFree /\ pc[c] = "send_audio"
    /\ Emit(c, AudioEv(audio_chunks[c]))
    /\ pc' = [pc EXCEPT ![c] = "send_idle"]
    /\ UNCHANGED <<env, blocking, vad, turn, owed, asr_calls, tts_calls>>

\* server.py:267
SendIdle(c) ==
    /\ LoopFree /\ pc[c] = "send_idle"
    /\ Emit(c, Status("idle"))
    /\ owed' = [owed EXCEPT ![c] = 0]
    /\ pc' = [pc EXCEPT ![c] = "recv"]
    /\ UNCHANGED <<env, blocking, vad, turn, asr_calls, tts_calls>>

\* a send_json raises because the client is gone: inside the try of
\* server.py:250-265 the exception is swallowed, elsewhere it reaches the
\* handlers of server.py:269-271
SendRaises(c, e) ==
    /\ LoopFree /\ pc[c] \in SendPcs /\ link[c] = "gone"
    /\ IF pc[c] = "send_audio"
       THEN /\ pc' = [pc EXCEPT ![c] = "send_idle"]
            /\ exc' = [exc EXCEPT ![c] = e]
            /\ UNCHANGED <<inbox, vad, full_audio, text, response_text, widx, audio_chunks>>
       ELSE IF e = "WebSocketDisconnect"
       THEN Return(c)
       ELSE Raise(c, e)
    /\ UNCHANGED <<asr_model, started, now, link, blocking, ghost>>

\* server.py:271-281: any other exception; the error event is attempted
\* and the handler ends; delivered is whether that send went through
HandleException(c, delivered) ==
    /\ LoopFree /\ pc[c] = "except"
    /\ delivered \/ link[c] = "gone"
    /\ IF delivered THEN Emit(c, ErrorEv(exc[c])) ELSE UNCHANGED <<sent, first_event>>
    /\ Return(c)
    /\ UNCHANGED <<asr_model, started, now, link, blocking, owed, asr_calls, tts_calls>>

\* the steps of a handler whose client stays connected and sends
\* well-formed frames
Handler(c) ==
    \/ Accept(c)
    \/ SendInitialStatus(c)
    \/ ReceiveBytes(c)
    \/ SendListening(c)
    \/ SendProcessing(c)
    \/ SendModelError(c)
    \/ \E segments \in AsrResults : TranscribeReturn(c, segments)
    \/ \E msg \in AsrErrors : TranscribeRaise(c, msg)
    \/ SendAsrError(c)
    \/ SendEmptyIdle(c)
    \/ SendTranscript(c)
    \/ SendLatencyStats(c)
    \/ SendToken(c)
    \/ Sleep(c)
    \/ \E stream \in TtsStreams : TtsStream(c, stream)
    \/ \E msg \in TtsErrors : TtsRaise(c, msg)
    \/ SendAudio(c)
    \/ SendIdle(c)

\* the steps that end a handler
Teardown(c) ==
    \/ ReceiveDisconnect(c)
    \/ \E e \in SendErrors : SendRaises(c, e)
    \/ \E delivered \in BOOLEAN : HandleException(c, delivered)

Next ==
    \/ \E ok \in BOOLEAN : load_models(ok)
    \/ Tick(MaxTicks)
    \/ \E c \in Conns, f \in ClientFrames : ClientSend(c, f, MaxBuf)
    \/ \E c \in Conns : ClientDisconnect(c)
    \/ \E c \in Conns : Handler(c)
    \/ \E c \in Conns : Teardown(c)

Spec == Init /\ [][Next]_vars

(***************************************************************************)
(* Two clients served by the same process; both stay connected and send    *)
(* well-formed frames.                                                     *)
(***************************************************************************)
InitTwo == InitWith(Conns)

\* the frames the two clients send: a zero-length frame and an active one
TwoFrames == { <<>>, <<72, 1, 184, 254>> }

NextTwo ==
    \/ \E ok \in BOOLEAN : load_models(ok)
    \/ Tick(TwoTicks)
    \/ \E c \in Conns, f \in TwoFrames : ClientSend(c, f, TwoBuf)
    \/ \E c \in Conns : Handler(c)

SpecTwo == InitTwo /\ [][NextTwo]_vars

(***************************************************************************)
(* generate_response on its own: the same text is handed to it twice, at   *)
(* any two times.                                                          *)
(***************************************************************************)
\* texts handed to generate_response: one per trigger, in mixed case, and
\* one without a trigger
GenTexts == { "Hello", "Hi!", "The weather", "What time?", "THE TIME",
              "Your name?", "How are you", "Thanks", "Bye.", "Ok" }

InitGen ==
    /\ asr_model = "WhisperModel"
    /\ started = TRUE
    /\ now = Epoch
    /\ blocking = 0
    /\ link = [c \in Conns |-> "absent"]
    /\ inbox = [c \in Conns |-> <<>>]
    /\ pc = [c \in Conns |-> "off"]
    /\ audio_buffer = [c \in Conns |-> <<>>]
    /\ is_speaking = [c \in Conns |-> FALSE]
    /\ silence_start = [c \in Conns |-> None]
    /\ total_chunks = [c \in Conns |-> 0]
    /\ full_audio = [c \in Conns |-> <<>>]
    /\ \E t \in GenTexts : text = [c \in Conns |-> t]
    /\ response_text = [c \in Conns |-> ""]
    /\ widx = [c \in Conns |-> 0]
    /\ audio_chunks = [c \in Conns |-> <<>>]
    /\ exc = [c \in Conns |-> ""]
    /\ sent = [c \in Conns |-> <<>>]
    /\ first_event = [c \in Conns |-> None]
    /\ owed = [c \in Conns |-> 0]
    /\ asr_calls = [c \in Conns |-> 0]
    /\ tts_calls = [c \in Conns |-> 0]

\* server.py:231: the c-th invocation
Respond(c) ==
    /\ response_text[c] = ""
    /\ response_text' = [response_text EXCEPT ![c] = generate_response(text[c], now)]
    /\ UNCHANGED <<env, blocking, pc, vad, full_audio, text, widx, audio_chunks, exc, ghost>>

NextGen ==
    \/ Tick(MaxTicks)
    \/ \E c \in Conns : Respond(c)

SpecGen == InitGen /\ [][NextGen]_vars

(***************************************************************************)
(* Vocabulary of the properties.                                           *)
(***************************************************************************)
Listening == Status("listening")
Processing == Status("processing")
Idle == Status("idle")

Events(c) == {sent[c][i] : i \in 1..Len(sent[c])}

Tokens(ws) == [i \in 1..Len(ws) |-> Token(ws[i])]

\* the handler of c receives a well-formed frame in this step
RecvStep(c) == pc[c] = "recv" /\ total_chunks'[c] = total_chunks[c] + 1

\* the frame received in a RecvStep, decoded
RecvChunk(c) == Frombuffer(Head(inbox[c]))

\* the endpointer of c is Idle with nothing buffered
Fresh(c) ==
    /\ audio_buffer[c] = <<>>
    /\ total_chunks[c] = 0
    /\ ~is_speaking[c]
    /\ silence_start[c] = None

(***************************************************************************)
(* C1: in a cycle with a non-empty transcript and synthesized audio, the   *)
(* events from the first active frame of the segment to the end of the     *)
(* cycle are exactly listening, processing, transcript, latency_stats, one *)
(* token per word of the reply (at least one), audio, idle.                *)
(***************************************************************************)
SuccessfulCycle(c) ==
    <<Listening, Processing, Transcript(text[c]), LatencyStats>>
        \o Tokens(Split(response_text[c]))
        \o <<AudioEv(audio_chunks[c]), Idle>>

C1_SuccessfulCycleOrder ==
    \A c \in Conns :
        (pc[c] = "recv" /\ link[c] = "open" /\ text[c] # "" /\ audio_chunks[c] # <<>>)
            => /\ sent[c] = SuccessfulCycle(c)
               /\ Len(Split(response_text[c])) >= 1

C1_Witness ==
    \E c \in Conns :
        /\ pc[c] = "recv" /\ link[c] = "open"
        /\ text[c] = "Bye." /\ audio_chunks[c] = <<"ID3", "xx">>
        /\ Len(sent[c]) = 11

(***************************************************************************)
(* C2: every cycle that is not cut short by a disconnect ends with         *)
(* status:idle as its last event: when the handler is back at              *)
(* receive_bytes after a flush, the last event sent is status:idle.        *)
(***************************************************************************)
C2_IdleEndsEveryCycle ==
    \A c \in Conns :
        (pc[c] = "recv" /\ link[c] = "open" /\ Processing \in Events(c))
            => sent[c][Len(sent[c])] = Idle

(***************************************************************************)
(* C3: while the endpointer is Idle the buffer is empty: inactive frames   *)
(* received before speech are not appended to audio_buffer.                *)
(***************************************************************************)
C3_IdleFramesDropped ==
    \A c \in Conns :
        (pc[c] = "recv" /\ ~is_speaking[c]) => Len(audio_buffer[c]) = 0

(***************************************************************************)
(* C4, as stated: an inactive frame received while speaking, with the      *)
(* time elapsed since silence_start >= SILENCE_LIMIT, fires the flush.     *)
(***************************************************************************)
C4_FlushAtLimit ==
    [][\A c \in Conns :
        (/\ RecvStep(c) /\ is_speaking[c] /\ ~Active(RecvChunk(c))
         /\ silence_start[c] # None
         /\ now - silence_start[c][1] >= SILENCE_LIMIT)
            => pc'[c] = "send_processing"]_vars

(***************************************************************************)
(* C4, amended: the flush fires exactly on a received inactive frame at    *)
(* which the time elapsed since silence_start is strictly greater than     *)
(* SILENCE_LIMIT; it fires only while handling a received frame, never on  *)
(* an active frame, a segment starts only with an active frame, and the    *)
(* flush ends the segment.                                                 *)
(***************************************************************************)
C4_FlushAfterLimit ==
    [][\A c \in Conns :
        /\ RecvStep(c) =>
              (pc'[c] = "send_processing"
                  <=> /\ is_speaking[c] /\ ~Active(RecvChunk(c))
                      /\ silence_start[c] # None
                      /\ now - silence_start[c][1] > SILENCE_LIMIT)
        /\ (pc'[c] = "send_processing" /\ pc[c] # "send_processing") => RecvStep(c)
        /\ (is_speaking'[c] /\ ~is_speaking[c]) => (RecvStep(c) /\ Active(RecvChunk(c)))
        /\ (pc[c] = "send_processing" /\ Processing \in Events(c)')
              => (~is_speaking'[c] /\ audio_buffer'[c] = <<>>)
      ]_vars

C4_Witness ==
    \E c \in Conns :
        /\ pc[c] = "send_processing" /\ is_speaking[c]
        /\ silence_start[c] # None
        /\ now - silence_start[c][1] = SILENCE_LIMIT + 1

(***************************************************************************)
(* C5: while speaking, every received frame is appended to audio_buffer    *)
(* in receipt order; an inactive frame at which the time elapsed since     *)
(* silence_start is below SILENCE_LIMIT fires no flush; an active frame    *)
(* resets silence_start to None, and the next inactive frame restarts the  *)
(* measurement at the current time.                                        *)
(***************************************************************************)
C5_ShortSilenceKeepsBuffering ==
    [][\A c \in Conns :
        (RecvStep(c) /\ is_speaking[c]) =>
            /\ audio_buffer'[c] = Append(audio_buffer[c], RecvChunk(c))
            /\ Active(RecvChunk(c)) =>
                  (silence_start'[c] = None /\ pc'[c] = "recv")
            /\ (~Active(RecvChunk(c)) /\ silence_start[c] = None) =>
                  silence_start'[c] = Some(now)
            /\ (/\ ~Active(RecvChunk(c))
                /\ silence_start'[c] # None
                /\ now - silence_start'[c][1] < SILENCE_LIMIT) =>
                  (pc'[c] = "recv" /\ is_speaking'[c])
      ]_vars

\* a silence timer was running, an active frame reset it, and the frames
\* of the short silence are still buffered
C5_Witness ==
    \E c \in Conns :
        /\ pc[c] = "recv" /\ is_speaking[c] /\ silence_start[c] = None
        /\ Len(audio_buffer[c]) = 4
        /\ Active(audio_buffer[c][1]) /\ ~Active(audio_buffer[c][2])
        /\ ~Active(audio_buffer[c][3]) /\ Active(audio_buffer[c][4])

(***************************************************************************)
(* C6: no second status:processing is sent on a connection before the      *)
(* status:idle of the previous cycle.                                      *)
(***************************************************************************)
C6_OneCycleInFlight == \A c \in Conns : owed[c] <= 1

(***************************************************************************)
(* C7: while a cycle is in flight (transcription, pacing delay,            *)
(* synthesis) a frame sent by the client can be received by the handler.   *)
(***************************************************************************)
C7_IngestDuringCycle ==
    \A c \in Conns :
        (pc[c] \in {"transcribe", "sleep", "tts"} /\ inbox[c] # <<>>)
            => ENABLED ReceiveBytes(c)

(***************************************************************************)
(* C8: while a transcription or synthesis call is pending on one           *)
(* connection, the handler of another connection that waits for a frame    *)
(* the client has sent can receive it.                                     *)
(***************************************************************************)
C8_OtherConnectionRuns ==
    \A c, d \in Conns :
        (/\ c # d
         /\ pc[c] \in {"transcribe", "tts"}
         /\ pc[d] = "recv" /\ inbox[d] # <<>>)
            => ENABLED ReceiveBytes(d)

(***************************************************************************)
(* C9: with no ASR model loaded, a flush sends exactly one error event     *)
(* and nothing else, transcribe is not called, and the handler is back at  *)
(* receive_bytes with the endpointer Idle and the buffer empty.            *)
(***************************************************************************)
C9_ModelNotLoaded ==
    \A c \in Conns :
        asr_model = "None" =>
            /\ asr_calls[c] = 0
            /\ pc[c] \notin (CyclePcs \ {"send_processing", "send_error_model"})
            /\ pc[c] = "send_error_model" =>
                  (sent[c] = <<Listening, Processing>> /\ Fresh(c))
            /\ (pc[c] = "recv" /\ Processing \in Events(c)) =>
                  /\ sent[c] = <<Listening, Processing, ErrorEv("ASR model not loaded")>>
                  /\ Fresh(c)

\* the second flush of a connection was answered by the error event
C9_Witness ==
    \E c \in Conns :
        /\ started /\ asr_model = "None" /\ owed[c] = 2 /\ pc[c] = "recv"
        /\ Processing \in Events(c)

(***************************************************************************)
(* C10: when transcribe raises, the cycle sends exactly one error event    *)
(* with the failure message and nothing else, transcribe was called once,  *)
(* and the handler is back at receive_bytes in the state it is in after    *)
(* accepting the connection, so that the next segment is processed as the  *)
(* first.                                                                  *)
(***************************************************************************)
C10_TranscriptionRaised ==
    \A c \in Conns :
        /\ pc[c] = "send_error_asr" =>
              /\ sent[c] = <<Listening, Processing>>
              /\ asr_calls[c] = 1 /\ exc[c] \in AsrErrors
        /\ (pc[c] = "recv" /\ asr_calls[c] >= 1 /\ text[c] = "" /\ exc[c] # "") =>
              /\ sent[c] = <<Listening, Processing,
                             ErrorEv("Transcription failed: " \o exc[c])>>
              /\ asr_calls[c] = 1
              /\ Fresh(c)

\* a cycle completes with audio after a cycle that ended without status:idle
C10_Witness ==
    \E c \in Conns :
        /\ asr_model # "None" /\ owed[c] = 2 /\ pc[c] = "send_idle"
        /\ audio_chunks[c] # <<>> /\ link[c] = "open"
        /\ SuccessfulCycle(c) = sent[c] \o <<Idle>>

(***************************************************************************)
(* C11: when edge_tts raises, the events of the cycle are listening,       *)
(* processing, transcript, latency_stats and every token, then idle: no    *)
(* audio event and no error event; edge_tts was called once; the handler   *)
(* is not ended by the failure and receives the next frame.                *)
(***************************************************************************)
SynthesisFailed(c) == exc[c] \in TtsErrors

C11_SynthesisFailure ==
    \A c \in Conns :
        SynthesisFailed(c) =>
            /\ pc[c] \in {"send_idle", "recv"}
            /\ tts_calls[c] = 1 /\ audio_chunks[c] = <<>>
            /\ sent[c] = <<Listening, Processing, Transcript(text[c]), LatencyStats>>
                            \o Tokens(Split(response_text[c]))
                            \o (IF pc[c] = "recv" THEN <<Idle>> ELSE <<>>)
            /\ (pc[c] = "recv" /\ inbox[c] # <<>>) => ENABLED ReceiveBytes(c)

\* the cycle with the failed synthesis is over and the next frame is queued
C11_Witness ==
    \E c \in Conns :
        /\ SynthesisFailed(c) /\ pc[c] = "recv" /\ link[c] = "open"
        /\ inbox[c] # <<>> /\ Len(sent[c]) >= 6

(***************************************************************************)
(* C12: when the transcribed text is empty after trimming, the only event  *)
(* after status:processing is status:idle: no transcript, latency_stats,   *)
(* token, audio or error event; generate_response and edge_tts are not     *)
(* called.  The steps of a reply run only with a text that is not empty    *)
(* after trimming.                                                         *)
(***************************************************************************)
ReplyPcs == {"send_transcript", "send_stats", "send_token", "sleep", "tts",
             "send_audio", "send_idle"}

C12_EmptyTranscription ==
    \A c \in Conns :
        /\ pc[c] \in ReplyPcs => Strip(text[c]) # ""
        /\ pc[c] = "send_idle_empty" =>
              /\ sent[c] = <<Listening, Processing>>
              /\ Strip(text[c]) = "" /\ response_text[c] = ""
              /\ asr_calls[c] = 1 /\ tts_calls[c] = 0
        /\ (pc[c] = "recv" /\ asr_calls[c] >= 1 /\ Strip(text[c]) = "" /\ exc[c] = "") =>
              /\ sent[c] = <<Listening, Processing, Idle>>
              /\ response_text[c] = "" /\ audio_chunks[c] = <<>>
              /\ asr_calls[c] = 1 /\ tts_calls[c] = 0

\* transcribe returned, the text was empty and the handler waits for a frame
C12_Witness ==
    \E c \in Conns :
        /\ pc[c] = "recv" /\ link[c] = "open" /\ asr_calls[c] = 1
        /\ text[c] = "" /\ exc[c] = "" /\ Len(sent[c]) = 3

(***************************************************************************)
(* C13: once the handler has detected the end of the connection (a         *)
(* receive or a send raised because the client is gone), it sends no event *)
(* any more and it ends.                                                   *)
(***************************************************************************)
Detected(c) == pc[c] = "closed" \/ exc[c] \in SendErrors

C13_NoEventAfterDetection ==
    [][\A c \in Conns :
        Detected(c) => /\ sent'[c] = sent[c]
                       /\ pc'[c] \in {"except", "closed"}
      ]_vars

(***************************************************************************)
(* C14: every frame taken from the connection, whatever its byte length,   *)
(* is appended to audio_buffer (an odd-length frame without its trailing   *)
(* byte, a zero-length frame as an empty chunk) and the handler stays in   *)
(* its loop.                                                               *)
(***************************************************************************)
C14_AnyFrameIngested ==
    [][\A c \in Conns :
        (pc[c] = "recv" /\ Len(inbox'[c]) < Len(inbox[c])) =>
            /\ audio_buffer'[c] = Append(audio_buffer[c], RecvChunk(c))
            /\ pc'[c] \notin {"except", "closed"}
      ]_vars

(***************************************************************************)
(* C15: two invocations of generate_response with the same text return     *)
(* the same reply, whenever they are made.                                 *)
(***************************************************************************)
C15_SameTextSameReply ==
    \A c, d \in Conns :
        (text[c] = text[d] /\ response_text[c] # "" /\ response_text[d] # "")
            => response_text[c] = response_text[d]

(***************************************************************************)
(* C16: the token events of a cycle are the whitespace-delimited units of  *)
(* the reply, one event per unit, in the order of the reply, each unit     *)
(* followed by one space; when the loop over the words is done there are   *)
(* as many token events as units; every token event comes after            *)
(* latency_stats and before any audio event.                               *)
(***************************************************************************)
TokenEvents(c) == SelectSeq(sent[c], LAMBDA ev : ev[1] = "token")

\* how many of the n units of the reply have had their token event sent
UnitsDone(c, n) ==
    IF pc[c] = "send_token" THEN widx[c] - 1
    ELSE IF pc[c] = "sleep" THEN widx[c]
    ELSE IF pc[c] \in {"tts", "send_audio", "send_idle", "recv"} THEN n
    ELSE 0

\* a maximal run of characters that are not whitespace
IsUnit(u) == u # "" /\ \A k \in 1..Len(u) : Char(u, k) \notin WhiteSpace

C16_TokensAreUnits ==
    \A c \in Conns :
        pc[c] \notin {"except", "closed"} =>
            IF response_text[c] = ""
            THEN \A i \in 1..Len(sent[c]) : sent[c][i][1] # "token"
            ELSE LET units == Split(response_text[c])
                     events == sent[c]
                 IN  /\ TokenEvents(c) =
                           [i \in 1..UnitsDone(c, Len(units)) |->
                               <<"token", units[i] \o " ">>]
                     /\ \A i, j \in 1..Len(events) :
                           /\ (events[i] = LatencyStats /\ events[j][1] = "token")
                                 => i < j
                           /\ (events[i][1] = "token" /\ events[j][1] = "audio")
                                 => i < j
                           /\ (events[i][1] = "token" /\ events[j][1] = "token" /\ i < j)
                                 => \A k \in i..j : events[k][1] = "token"
                     /\ pc[c] = "tts" => \A i \in 1..Len(units) : IsUnit(units[i])

\* the six tokens of the reply to a question about the time have been sent,
\* the audio event comes next
C16_Witness ==
    \E c \in Conns :
        /\ pc[c] = "send_audio" /\ Len(TokenEvents(c)) = 6
        /\ TokenEvents(c)[6] = <<"token", "AM ">>

(***************************************************************************)
(* C17: the audio handed to transcribe at a flush is the concatenation,    *)
(* in receipt order, of the frames from the active frame that started the  *)
(* segment up to the inactive frame that fired the flush, and of no frame  *)
(* received before; the flush leaves the buffer and the counter empty.     *)
(***************************************************************************)
\* position in the buffer of the frame that started the segment: the
\* first active one
SpeechStart(buffer) ==
    CHOOSE i \in 1..Len(buffer) :
        Active(buffer[i]) /\ \A j \in 1..(i - 1) : ~Active(buffer[j])

C17_UtteranceIsSpeechSegment ==
    [][\A c \in Conns :
        (pc[c] = "send_processing" /\ pc'[c] = "transcribe") =>
            /\ full_audio'[c] =
                  Concatenate(SubSeq(audio_buffer[c], SpeechStart(audio_buffer[c]),
                                     Len(audio_buffer[c])))
            /\ audio_buffer'[c] = <<>> /\ total_chunks'[c] = 0
      ]_vars

(***************************************************************************)
(* C18, as stated: a flush is fired only by the step that handles a        *)
(* received frame; the passing of time alone changes nothing in a handler  *)
(* and sends nothing; the first frame received after the silence limit has *)
(* elapsed fires the flush.                                                *)
(***************************************************************************)
\* the silence limit has elapsed on connection c
LimitElapsed(c) ==
    /\ is_speaking[c] /\ silence_start[c] # None
    /\ now - silence_start[c][1] > SILENCE_LIMIT

FlushOnlyOnFrame(c) ==
    /\ (pc'[c] = "send_processing" /\ pc[c] # "send_processing") => RecvStep(c)
    /\ now' # now => (pc'[c] = pc[c] /\ sent'[c] = sent[c] /\ owed'[c] = owed[c])

C18_FlushOnFirstFrame ==
    [][\A c \in Conns :
        /\ FlushOnlyOnFrame(c)
        /\ (RecvStep(c) /\ LimitElapsed(c)) => pc'[c] = "send_processing"
      ]_vars

(***************************************************************************)
(* C18, amended: a flush is fired only by the step that handles a received *)
(* frame; the passing of time alone changes nothing in a handler and sends *)
(* nothing; the first inactive frame received after the silence limit has  *)
(* elapsed fires the flush, an active frame received then resets the       *)
(* silence timer and fires none.                                           *)
(***************************************************************************)
C18_FlushOnFirstInactiveFrame ==
    [][\A c \in Conns :
        /\ FlushOnlyOnFrame(c)
        /\ (RecvStep(c) /\ LimitElapsed(c)) =>
              IF Active(RecvChunk(c))
              THEN pc'[c] = "recv" /\ silence_start'[c] = None /\ is_speaking'[c]
              ELSE pc'[c] = "send_processing"
      ]_vars

\* the limit elapsed two ticks ago and the handler still waits for a frame
C18_Witness ==
    \E c \in Conns :
        /\ pc[c] = "recv" /\ inbox[c] = <<>> /\ link[c] = "open"
        /\ is_speaking[c] /\ silence_start[c] # None
        /\ now - silence_start[c][1] = SILENCE_LIMIT + 3
        /\ Processing \notin Events(c)

C20_EndpointerConsistent ==
    \A c \in Conns :
        /\ pc[c] \in {"recv", "send_listening", "send_processing"} =>
              /\ total_chunks[c] = Len(audio_buffer[c])
              /\ silence_start[c] # None => is_speaking[c]
        /\ pc[c] \in CyclePcs \ {"send_processing"} => Fresh(c)
        /\ (pc[c] = "recv" /\ Processing \in Events(c)) => Fresh(c)

\* three frames are buffered, one of them of zero length, and the silence
\* timer runs
C20_Witness ==
    \E c \in Conns :
        /\ pc[c] = "recv" /\ is_speaking[c] /\ silence_start[c] # None
        /\ total_chunks[c] = 3 /\ <<>> \in {audio_buffer[c][i] : i \in 1..Len(audio_buffer[c])}

====
